---- MODULE Spec2Model ----
(***************************************************************************)
(* Model of x-ui's SettingService (package service): the settings table,   *)
(* the default catalog, and one action per public or package-level         *)
(* operation of the service.  Values of rows are strings, modelled as      *)
(* sequences of one-character strings so that parsing, formatting and      *)
(* prefix/suffix tests are computed, not assumed.  Keys are only ever      *)
(* compared, so they stay atomic strings.  The specifications share the    *)
(* variables: Spec (bulk operations), SpecAccessors (single-key            *)
(* accessors), SpecZone (the time zone), SpecInt (the two reads of an      *)
(* integer setting), SpecDetached (the upload                              *)
(* goroutines as steps of their own), SpecConcurrent (two callers whose    *)
(* saveSetting steps interleave) and SpecSchema (the bulk operations over  *)
(* other aggregate types).                                                 *)
(***************************************************************************)
EXTENDS Integers, Sequences, FiniteSets, TLC

VARIABLES
    store,          \* the settings table: for each key, its rows' values
    defaultSecret,  \* defaultValueMap["secret"], drawn once per process
    last,           \* the last completed call: op, arguments, the outcomes the
                    \* database reported, how many keys had a row, results
    sent,           \* notifications dispatched by the last call, in order
    schema,         \* the fields of the aggregate type the service reflects on
    procs,          \* the callers that run concurrently, each at its own step
    inflight,       \* upload goroutines that were started and have not ended
    logged,         \* the last line an upload goroutine handed to the logger
    alive           \* the process has not died of a panic

vars == <<store, defaultSecret, last, sent, schema, procs, inflight, logged, alive>>

\* what the sequential callers leave alone besides the table
rest == <<defaultSecret, schema, procs, inflight, logged, alive>>

----------------------------------------------------------------------------
(* Bounds of the model *)

\* largest number of per-key storage failures injected into one bulk write
MaxFail == 1
\* longest base path string offered to setString
MaxPathLen == 2
\* most upload goroutines running at once
MaxInflight == 8

----------------------------------------------------------------------------
(* Strings *)

DigitChars == <<"0", "1", "2", "3", "4", "5", "6", "7", "8", "9">>

IsDigit(c) == \E d \in 1..10 : DigitChars[d] = c

DigitVal(c) == (CHOOSE d \in 1..10 : DigitChars[d] = c) - 1

HasPrefix(s, p) == Len(s) >= Len(p) /\ SubSeq(s, 1, Len(p)) = p

HasSuffix(s, p) == Len(s) >= Len(p) /\ SubSeq(s, Len(s) - Len(p) + 1, Len(s)) = p

RECURSIVE StrsOfLen(_, _)
StrsOfLen(alphabet, n) ==
    IF n = 0 THEN { <<>> }
    ELSE { Append(s, c) : s \in StrsOfLen(alphabet, n - 1), c \in alphabet }

StrsUpTo(alphabet, n) == UNION { StrsOfLen(alphabet, k) : k \in 0..n }

----------------------------------------------------------------------------
(* Errors *)

Nil == [kind |-> "nil"]

\* gorm.ErrRecordNotFound, recognised by database.IsNotFound
NotFound == [kind |-> "notfound"]

\* any other failure of a database call; it carries what the driver
\* reported for the call, never the setting's key
StorageErr(call) == [kind |-> "storage", call |-> call]

\* *strconv.NumError{Func, Num, Err}
NumError(fn, num, why) == [kind |-> "parse", func |-> fn, num |-> num, why |-> why]

\* common.NewErrorf("key <%v> not in defaultValueMap", key)
ConfigErr(key) == [kind |-> "config", key |-> key]

MaxInt32 == 2147483647
MinInt32 == -2147483647 - 1

----------------------------------------------------------------------------
(* strconv *)

\* largest n with 10*n + d <= 2^32 - 1, the bound ParseUint(s, 10, 32) enforces
UintCutoff(d) == IF d <= 5 THEN 429496729 ELSE 429496728

\* ParseUint's digit loop followed by ParseInt's signed range test, for
\* bitSize 32.  The accumulator n never leaves 0..2^31-1: a value in
\* 2^31..2^32-1 is held as over = TRUE with exact = (value = 2^31), since
\* any further digit then exceeds 2^32-1.
RECURSIVE ParseDigits32(_, _, _, _, _, _)
ParseDigits32(s, i, n, over, exact, neg) ==
    IF i > Len(s)
    THEN IF ~over THEN [why |-> "ok", n |-> IF neg THEN 0 - n ELSE n]
         ELSE IF neg /\ exact THEN [why |-> "ok", n |-> MinInt32]
         ELSE [why |-> "range", n |-> 0]
    ELSE IF ~IsDigit(s[i]) THEN [why |-> "syntax", n |-> 0]
    ELSE IF over THEN [why |-> "range", n |-> 0]
    ELSE LET d == DigitVal(s[i]) IN
         IF n <= (MaxInt32 - d) \div 10
         THEN ParseDigits32(s, i + 1, 10 * n + d, FALSE, FALSE, neg)
         ELSE IF n <= UintCutoff(d)
         THEN ParseDigits32(s, i + 1, 0, TRUE, n = 214748364 /\ d = 8, neg)
         ELSE [why |-> "range", n |-> 0]

\* strconv.ParseInt(s, 10, 32): [n, err]
ParseInt32(s) ==
    IF s = <<>> THEN [n |-> 0, err |-> NumError("ParseInt", s, "syntax")]
    ELSE LET signed == s[1] \in {"+", "-"}
             neg == s[1] = "-"
             body == IF signed THEN Tail(s) ELSE s
             r == IF body = <<>> THEN [why |-> "syntax", n |-> 0]
                  ELSE ParseDigits32(body, 1, 0, FALSE, FALSE, neg)
         IN IF r.why = "ok" THEN [n |-> r.n, err |-> Nil]
            ELSE [n |-> 0, err |-> NumError("ParseInt", s, r.why)]

RECURSIVE FormatNat(_)
FormatNat(n) ==
    IF n < 10 THEN << DigitChars[n + 1] >>
    ELSE Append(FormatNat(n \div 10), DigitChars[(n % 10) + 1])

\* strconv.Itoa(n), which is also fmt.Sprint of an int
Itoa(n) == IF n < 0 THEN <<"-">> \o FormatNat(0 - n) ELSE FormatNat(n)

\* a Go int outside the 32-bit range, which the model holds as its sign and
\* its decimal digits without leading zeros
Wide(neg, digits) == [neg |-> neg, digits |-> digits]

\* 2^64 - 1, 2^63 - 1 and 2^63 in decimal digits
MaxUint64Digits == <<1, 8, 4, 4, 6, 7, 4, 4, 0, 7, 3, 7, 0, 9, 5, 5, 1, 6, 1, 5>>
MaxInt64Digits == <<9, 2, 2, 3, 3, 7, 2, 0, 3, 6, 8, 5, 4, 7, 7, 5, 8, 0, 7>>
MinInt64Digits == <<9, 2, 2, 3, 3, 7, 2, 0, 3, 6, 8, 5, 4, 7, 7, 5, 8, 0, 8>>

\* a <= b for numbers given by their digits without leading zeros
DigitsLE(a, b) ==
    \/ Len(a) < Len(b)
    \/ /\ Len(a) = Len(b)
       /\ \/ a = b
          \/ \E i \in 1..Len(a) :
                 a[i] < b[i] /\ \A j \in 1..(i - 1) : a[j] = b[j]

\* the digits of 10 * acc + d
PushDigit(acc, d) == IF acc = <<>> /\ d = 0 THEN <<>> ELSE Append(acc, d)

\* ParseUint's digit loop for bitSize 64 followed by ParseInt's signed range
\* test.  acc holds the digits read so far; out of range the functions
\* return the nearest limit together with the error.
RECURSIVE ParseDigits64(_, _, _, _)
ParseDigits64(s, i, acc, neg) ==
    IF i > Len(s)
    THEN IF DigitsLE(acc, IF neg THEN MinInt64Digits ELSE MaxInt64Digits)
         THEN [why |-> "ok", neg |-> neg, digits |-> acc]
         ELSE [why |-> "range", neg |-> neg,
               digits |-> IF neg THEN MinInt64Digits ELSE MaxInt64Digits]
    ELSE IF ~IsDigit(s[i]) THEN [why |-> "syntax", neg |-> FALSE, digits |-> <<>>]
    ELSE IF ~DigitsLE(PushDigit(acc, DigitVal(s[i])), MaxUint64Digits)
    THEN [why |-> "range", neg |-> neg,
          digits |-> IF neg THEN MinInt64Digits ELSE MaxInt64Digits]
    ELSE ParseDigits64(s, i + 1, PushDigit(acc, DigitVal(s[i])), neg)

\* the Go int with this sign and these digits: an integer of the model when
\* it fits in 32 bits, else a Wide
RECURSIVE NatOf(_, _)
NatOf(digits, n) == IF digits = <<>> THEN n ELSE NatOf(Tail(digits), 10 * n + Head(digits))

IntOf(neg, digits) ==
    IF DigitsLE(digits, <<2, 1, 4, 7, 4, 8, 3, 6, 4, 7>>)
    THEN IF neg THEN 0 - NatOf(digits, 0) ELSE NatOf(digits, 0)
    ELSE IF neg /\ digits = <<2, 1, 4, 7, 4, 8, 3, 6, 4, 8>> THEN MinInt32
    ELSE Wide(neg, digits)

\* strconv.Atoi(s) where int has 64 bits: [n, err]
Atoi(s) ==
    IF s = <<>> THEN [n |-> 0, err |-> NumError("Atoi", s, "syntax")]
    ELSE LET signed == s[1] \in {"+", "-"}
             body == IF signed THEN Tail(s) ELSE s
             r == IF body = <<>> THEN [why |-> "syntax", neg |-> FALSE, digits |-> <<>>]
                  ELSE ParseDigits64(body, 1, <<>>, s[1] = "-")
         IN [n |-> IntOf(r.neg, r.digits),
             err |-> IF r.why = "ok" THEN Nil ELSE NumError("Atoi", s, r.why)]

----------------------------------------------------------------------------
(* The default catalog and the aggregate's schema *)

\* the embedded config.json, an opaque document
xrayTemplateConfig == <<"{", "}">>

SecretLen == 32

\* what random.Seq(32) produces at process start: one representative, since
\* the service only copies the secret and compares it for equality
SecretSeeds == { [i \in 1..SecretLen |-> "p"] }

\* a secret that an earlier process generated
OldSecret == [i \in 1..SecretLen |-> "q"]

CatalogKeys ==
    {"xrayTemplateConfig", "webListen", "webPort", "webCertFile",
     "webKeyFile", "secret", "webBasePath", "timeLocation"}

defaultValueMap(secret) ==
    [k \in CatalogKeys |->
        CASE k = "xrayTemplateConfig" -> xrayTemplateConfig
          [] k = "webListen" -> <<>>
          [] k = "webPort" -> <<"5", "4", "3", "2", "1">>
          [] k = "webCertFile" -> <<>>
          [] k = "webKeyFile" -> <<>>
          [] k = "secret" -> secret
          [] k = "webBasePath" -> <<"/">>
          [] k = "timeLocation" -> <<"A", "s", "i", "a", "/", "S", "h", "a", "n", "g", "h", "a", "i">>]

\* entity.AllSetting: its fields in declaration order, each with its json
\* tag and Go type
AllSetting ==
    << [key |-> "webListen", type |-> "string"],
       [key |-> "webPort", type |-> "int"],
       [key |-> "webCertFile", type |-> "string"],
       [key |-> "webKeyFile", type |-> "string"],
       [key |-> "webBasePath", type |-> "string"],
       [key |-> "xrayTemplateConfig", type |-> "string"],
       [key |-> "timeLocation", type |-> "string"] >>

\* an aggregate type one of whose fields has no json tag
AllSettingUntagged == Append(AllSetting, [key |-> "", type |-> "string"])

\* an aggregate type one of whose fields has a tag the catalog does not list
AllSettingNoDefault == Append(AllSetting, [key |-> "other", type |-> "string"])

\* reflect_util.GetFields(t): the fields of the aggregate type in use
Fields == schema

FieldKeys == { Fields[i].key : i \in 1..Len(Fields) }

FieldType(key) == Fields[CHOOSE i \in 1..Len(Fields) : Fields[i].key = key].type

\* &entity.AllSetting{}: every field at its Go zero value
ZeroSetting == [k \in FieldKeys |-> IF FieldType(k) = "int" THEN 0 ELSE <<>>]

\* a nil *entity.AllSetting
NoSetting == [nil |-> TRUE]

----------------------------------------------------------------------------
(* The settings table (model.Setting) and the calls made on it *)

\* every key the model's callers use: the catalog's, plus one that is in
\* neither the catalog nor the aggregate
Keys == CatalogKeys \cup {"other"}

\* every key a row can have: the callers', and the empty tag of a field
\* that has none
StoreKeys == Keys \cup {""}

\* store[k] lists the values of the rows whose key is k, oldest row first.
\* Rows of different keys are not ordered against each other: GetAllSetting
\* assigns a different field for each key.
EmptyStore == [k \in StoreKeys |-> <<>>]

HasRow(st, key) == st[key] # <<>>

\* the keys that have a row
RowKeys(st) == { k \in StoreKeys : HasRow(st, k) }

\* the outcomes a database call can report besides doing its work
ReadFailures == {Nil, StorageErr("read")}
WriteFailures == {Nil, StorageErr("write")}

\* uploadToFirestore(key, value): the document handed to the goroutine
Upload(key, value) == [kind |-> "setting", key |-> key, value |-> value]

\* uploadAllSettingsToFirestore(allSetting): the batch leaves out a field
\* that has no json tag
UploadAll(setting) ==
    [kind |-> "bulk", setting |-> [k \in (DOMAIN setting) \ {""} |-> setting[k]]]

\* how a started upload goroutine can end: the sink answers with a 2xx
\* status or with another one, client.Do fails, the client's timeout expires
\* (client.Do fails then, too), or something in the goroutine panics
SinkOutcomes == {"ok", "status", "error", "timeout", "panic"}

\* an upload goroutine without the deferred recover: a panic ends the process
runUpload_NoRecover(outcome) ==
    [logged |-> CASE outcome = "ok" -> "uploaded"
                  [] outcome = "status" -> "bad status"
                  [] outcome \in {"error", "timeout"} -> "send failed"
                  [] outcome = "panic" -> "panic",
     alive |-> outcome # "panic"]

\* the goroutine of uploadToFirestore and of uploadAllSettingsToFirestore:
\* whatever happens in it ends in one log line; the deferred recover turns a
\* panic into a log line as well
runUpload(outcome) ==
    [logged |-> CASE outcome = "ok" -> "uploaded"
                  [] outcome = "status" -> "bad status"
                  [] outcome \in {"error", "timeout"} -> "send failed"
                  [] outcome = "panic" -> "panic recovered",
     alive |-> TRUE]

\* getSetting: First() of the rows with this key
getSetting(st, key, f) ==
    IF f # Nil THEN [found |-> FALSE, err |-> f]
    ELSE IF ~HasRow(st, key) THEN [found |-> FALSE, err |-> NotFound]
    ELSE [found |-> TRUE, err |-> Nil]

\* saveSetting whose Save leaves the row it found as it was
saveSetting_KeepOld(st, key, value, fget, fwrite) ==
    LET g == getSetting(st, key, fget) IN
    IF g.err = NotFound
    THEN IF fwrite = Nil
         THEN [store |-> [st EXCEPT ![key] = Append(@, value)], err |-> Nil,
               sent |-> << Upload(key, value) >>]
         ELSE [store |-> st, err |-> fwrite, sent |-> <<>>]
    ELSE IF g.err # Nil
    THEN [store |-> st, err |-> g.err, sent |-> <<>>]
    ELSE IF fwrite = Nil
         THEN [store |-> st, err |-> Nil, sent |-> << Upload(key, value) >>]
         ELSE [store |-> st, err |-> fwrite, sent |-> <<>>]

\* saveSetting that starts the upload whether or not the write worked
saveSetting_UploadAlways(st, key, value, fget, fwrite) ==
    LET g == getSetting(st, key, fget) IN
    IF g.err = NotFound
    THEN IF fwrite = Nil
         THEN [store |-> [st EXCEPT ![key] = Append(@, value)], err |-> Nil,
               sent |-> << Upload(key, value) >>]
         ELSE [store |-> st, err |-> fwrite, sent |-> << Upload(key, value) >>]
    ELSE IF g.err # Nil
    THEN [store |-> st, err |-> g.err, sent |-> <<>>]
    ELSE IF fwrite = Nil
         THEN [store |-> [st EXCEPT ![key] = << value >> \o Tail(@)], err |-> Nil,
               sent |-> << Upload(key, value) >>]
         ELSE [store |-> st, err |-> fwrite, sent |-> << Upload(key, value) >>]

\* saveSetting: look the row up, Create it when there is none, else Save
\* the row that was found
saveSetting(st, key, value, fget, fwrite) ==
    LET g == getSetting(st, key, fget) IN
    IF g.err = NotFound
    THEN IF fwrite = Nil
         THEN [store |-> [st EXCEPT ![key] = Append(@, value)], err |-> Nil,
               sent |-> << Upload(key, value) >>]
         ELSE [store |-> st, err |-> fwrite, sent |-> <<>>]
    ELSE IF g.err # Nil
    THEN [store |-> st, err |-> g.err, sent |-> <<>>]
    ELSE IF fwrite = Nil
         THEN [store |-> [st EXCEPT ![key] = << value >> \o Tail(@)], err |-> Nil,
               sent |-> << Upload(key, value) >>]
         ELSE [store |-> st, err |-> fwrite, sent |-> <<>>]

\* The two database calls of saveSetting, for callers whose lookup and write
\* are separate steps.

\* db.Create: the insert.  The table keeps its key unique, so the insert of a
\* key that has a row by now is refused
Create(st, key, value) ==
    IF HasRow(st, key)
    THEN [store |-> st, err |-> StorageErr("unique")]
    ELSE [store |-> [st EXCEPT ![key] = Append(@, value)], err |-> Nil]

\* db.Save that writes nothing
Save_KeepOld(st, key, value) ==
    [store |-> st, err |-> Nil]

\* db.Save(setting): writes the row the lookup returned, found by its
\* primary key; a row deleted in between is inserted again
Save(st, key, value) ==
    IF HasRow(st, key)
    THEN [store |-> [st EXCEPT ![key] = << value >> \o Tail(@)], err |-> Nil]
    ELSE [store |-> [st EXCEPT ![key] = << value >>], err |-> Nil]

\* getString that answers the empty string for a key the catalog lacks
getString_NoCatalogCheck(st, dvm, key, f) ==
    LET g == getSetting(st, key, f) IN
    IF g.err = NotFound
    THEN [value |-> IF key \in DOMAIN dvm THEN dvm[key] ELSE <<>>, err |-> Nil]
    ELSE IF g.err # Nil
    THEN [value |-> <<>>, err |-> g.err]
    ELSE [value |-> Head(st[key]), err |-> Nil]

\* getString that treats every failed lookup as a missing row
getString_DefaultOnAnyError(st, dvm, key, f) ==
    LET g == getSetting(st, key, f) IN
    IF g.err # Nil
    THEN IF key \notin DOMAIN dvm
         THEN [value |-> <<>>, err |-> ConfigErr(key)]
         ELSE [value |-> dvm[key], err |-> Nil]
    ELSE [value |-> Head(st[key]), err |-> Nil]

getString(st, dvm, key, f) ==
    LET g == getSetting(st, key, f) IN
    IF g.err = NotFound
    THEN IF key \notin DOMAIN dvm
         THEN [value |-> <<>>, err |-> ConfigErr(key)]
         ELSE [value |-> dvm[key], err |-> Nil]
    ELSE IF g.err # Nil
    THEN [value |-> <<>>, err |-> g.err]
    ELSE [value |-> Head(st[key]), err |-> Nil]

getInt(st, dvm, key, f) ==
    LET r == getString(st, dvm, key, f) IN
    IF r.err # Nil THEN [value |-> 0, err |-> r.err]
    ELSE [value |-> Atoi(r.value).n, err |-> Atoi(r.value).err]

setString(st, key, value, fget, fwrite) == saveSetting(st, key, value, fget, fwrite)

setInt(st, key, value, fget, fwrite) == setString(st, key, Itoa(value), fget, fwrite)

----------------------------------------------------------------------------
(* Reading and writing the aggregate *)

RECURSIVE SetToSeq(_)
SetToSeq(S) ==
    IF S = {} THEN <<>>
    ELSE LET x == CHOOSE y \in S : TRUE IN << x >> \o SetToSeq(S \ {x})

\* the rows Find returns, as <<key, value>> pairs
RECURSIVE RowsOf(_, _)
RowsOf(st, keys) ==
    IF keys = <<>> THEN <<>>
    ELSE [i \in 1..Len(st[Head(keys)]) |-> << Head(keys), st[Head(keys)][i] >>]
         \o RowsOf(st, Tail(keys))

\* setSetting that skips a value it cannot parse
setSetting_SkipBadInt(setting, key, value) ==
    IF key \notin FieldKeys THEN [setting |-> setting, err |-> Nil]
    ELSE IF FieldType(key) = "int"
    THEN LET p == ParseInt32(value) IN
         IF p.err # Nil THEN [setting |-> setting, err |-> Nil]
         ELSE [setting |-> [setting EXCEPT ![key] = p.n], err |-> Nil]
    ELSE [setting |-> [setting EXCEPT ![key] = value], err |-> Nil]

\* setSetting that refuses a key no field carries
setSetting_RejectUnknown(setting, key, value) ==
    IF key \notin FieldKeys THEN [setting |-> setting, err |-> ConfigErr(key)]
    ELSE IF FieldType(key) = "int"
    THEN LET p == ParseInt32(value) IN
         IF p.err # Nil THEN [setting |-> setting, err |-> p.err]
         ELSE [setting |-> [setting EXCEPT ![key] = p.n], err |-> Nil]
    ELSE [setting |-> [setting EXCEPT ![key] = value], err |-> Nil]

\* the closure setSetting of GetAllSetting: assign one field from a string
setSetting(setting, key, value) ==
    IF key \notin FieldKeys THEN [setting |-> setting, err |-> Nil]
    ELSE IF FieldType(key) = "int"
    THEN LET p == ParseInt32(value) IN
         IF p.err # Nil THEN [setting |-> setting, err |-> p.err]
         ELSE [setting |-> [setting EXCEPT ![key] = p.n], err |-> Nil]
    ELSE [setting |-> [setting EXCEPT ![key] = value], err |-> Nil]

\* a loop of setSetting over <<key, value>> pairs that returns at the first error
RECURSIVE applyPairs(_, _)
applyPairs(setting, pairs) ==
    IF pairs = <<>> THEN [setting |-> setting, err |-> Nil]
    ELSE LET r == setSetting(setting, Head(pairs)[1], Head(pairs)[2]) IN
         IF r.err # Nil THEN r ELSE applyPairs(r.setting, Tail(pairs))

\* DefaultPairs without the keyMap test: every catalog entry is applied
DefaultPairs_All(dvm, keyMap) ==
    LET ks == SetToSeq(DOMAIN dvm) IN
    [i \in 1..Len(ks) |-> << ks[i], dvm[ks[i]] >>]

\* the catalog entries GetAllSetting still applies once the rows are in:
\* those whose key had no row.  Go ranges over the map in no fixed order;
\* each entry assigns its own field, so the order does not show.
DefaultPairs(dvm, keyMap) ==
    LET ks == SetToSeq((DOMAIN dvm) \ keyMap) IN
    [i \in 1..Len(ks) |-> << ks[i], dvm[ks[i]] >>]

GetAllSetting(st, dvm, f) ==
    IF f # Nil THEN [setting |-> NoSetting, err |-> f]
    ELSE LET rows == applyPairs(ZeroSetting, RowsOf(st, SetToSeq(StoreKeys)))
             keyMap == RowKeys(st)
         IN IF rows.err # Nil THEN [setting |-> NoSetting, err |-> rows.err]
            ELSE LET all == applyPairs(rows.setting, DefaultPairs(dvm, keyMap)) IN
                 IF all.err # Nil THEN [setting |-> NoSetting, err |-> all.err]
                 ELSE [setting |-> all.setting, err |-> Nil]

\* uploadToFirestore("reset_settings", "all_settings_reset")
ResetUpload ==
    Upload("reset_settings",
           <<"a", "l", "l", "_", "s", "e", "t", "t", "i", "n", "g", "s", "_", "r", "e", "s", "e", "t">>)

\* ResetSettings whose Delete spares the port's rows
ResetSettings_KeepPort(st, f) ==
    IF f = Nil
    THEN [store |-> [k \in StoreKeys |-> IF k = "webPort" THEN st[k] ELSE <<>>],
          err |-> Nil, sent |-> << ResetUpload >>]
    ELSE [store |-> st, err |-> f, sent |-> <<>>]

ResetSettings(st, f) ==
    IF f = Nil THEN [store |-> EmptyStore, err |-> Nil, sent |-> << ResetUpload >>]
    ELSE [store |-> st, err |-> f, sent |-> <<>>]

\* GetSecret that never saves the secret it resolved
GetSecret_NoPin(st, dvm, f, fget, fwrite) ==
    LET r == getString(st, dvm, "secret", f) IN
    [value |-> r.value, err |-> r.err, store |-> st, sent |-> <<>>]

GetSecret(st, dvm, f, fget, fwrite) ==
    LET r == getString(st, dvm, "secret", f) IN
    IF r.value = dvm["secret"]
    THEN LET sv == saveSetting(st, "secret", r.value, fget, fwrite) IN
         [value |-> r.value, err |-> r.err, store |-> sv.store, sent |-> sv.sent]
    ELSE [value |-> r.value, err |-> r.err, store |-> st, sent |-> <<>>]

\* GetBasePath that tests the suffix of the stored string, not of the
\* string it has just prefixed
GetBasePath_SuffixOfStored(st, dvm, f) ==
    LET r == getString(st, dvm, "webBasePath", f) IN
    IF r.err # Nil THEN [value |-> <<>>, err |-> r.err]
    ELSE LET a == IF ~HasPrefix(r.value, <<"/">>) THEN <<"/">> \o r.value ELSE r.value
             b == IF ~HasSuffix(r.value, <<"/">>) THEN a \o <<"/">> ELSE a
         IN [value |-> b, err |-> Nil]

GetBasePath(st, dvm, f) ==
    LET r == getString(st, dvm, "webBasePath", f) IN
    IF r.err # Nil THEN [value |-> <<>>, err |-> r.err]
    ELSE LET a == IF ~HasPrefix(r.value, <<"/">>) THEN <<"/">> \o r.value ELSE r.value
             b == IF ~HasSuffix(a, <<"/">>) THEN a \o <<"/">> ELSE a
         IN [value |-> b, err |-> Nil]

\* a nil *time.Location
NoLocation == [nil |-> TRUE]

\* the error time.LoadLocation returns for a name it cannot resolve
LocationErr(name) == [kind |-> "location", name |-> name]

UTC == <<"U", "T", "C">>

\* time.LoadLocation(name) on a system whose zone database holds the names
\* in tzdb: "" and "UTC" need no database, a name with ".." or a leading
\* slash or backslash is refused
LoadLocation(name, tzdb) ==
    IF name = <<>> \/ name = UTC THEN [location |-> [zone |-> UTC], err |-> Nil]
    ELSE IF name = <<"L", "o", "c", "a", "l">>
    THEN [location |-> [zone |-> name], err |-> Nil]
    ELSE IF \/ \E i \in 1..(Len(name) - 1) : name[i] = "." /\ name[i + 1] = "."
            \/ name[1] \in {"/", "\\"}
    THEN [location |-> NoLocation, err |-> LocationErr(name)]
    ELSE IF name \in tzdb THEN [location |-> [zone |-> name], err |-> Nil]
    ELSE [location |-> NoLocation, err |-> LocationErr(name)]

\* GetTimeLocation that returns the error of a name it cannot resolve
GetTimeLocation_NoFallback(st, dvm, f, tzdb) ==
    LET l == getString(st, dvm, "timeLocation", f) IN
    IF l.err # Nil THEN [location |-> NoLocation, err |-> l.err]
    ELSE LoadLocation(l.value, tzdb)

GetTimeLocation(st, dvm, f, tzdb) ==
    LET l == getString(st, dvm, "timeLocation", f) IN
    IF l.err # Nil THEN [location |-> NoLocation, err |-> l.err]
    ELSE IF LoadLocation(l.value, tzdb).err # Nil
    THEN LoadLocation(dvm["timeLocation"], tzdb)
    ELSE [location |-> LoadLocation(l.value, tzdb).location, err |-> Nil]

\* the error AllSetting.CheckValid reports for a port outside 1..65535
InvalidPort(port) == [kind |-> "invalid", port |-> port]

MaxPort == 65535

\* entity.AllSetting.CheckValid: the aggregate's own consistency check
CheckValid(setting) ==
    IF setting["webPort"] <= 0 \/ setting["webPort"] > MaxPort
    THEN InvalidPort(setting["webPort"])
    ELSE Nil

\* common.Combine: nil for no errors, else one error listing them all
Combine(errs) == IF errs = <<>> THEN Nil ELSE [kind |-> "multi", errs |-> errs]

\* fmt.Sprint of a field's value
Sprint(v, type) == IF type = "int" THEN Itoa(v) ELSE v

\* the <<key, value>> pairs UpdateAllSetting's loop saves, in field order
flattenToRows(setting) ==
    [i \in 1..Len(Fields) |->
        << Fields[i].key, Sprint(setting[Fields[i].key], Fields[i].type) >>]

FailGet(how) == IF how = "get" THEN StorageErr("read") ELSE Nil
FailWrite(how) == IF how = "write" THEN StorageErr("write") ELSE Nil

\* one pass of UpdateAllSetting's loop body after saveSetting returned sv:
\* acc carries the table, the errors collected and the uploads dispatched
collect(acc, key, sv) ==
    [store |-> sv.store,
     errs |-> IF sv.err # Nil THEN Append(acc.errs, sv.err) ELSE acc.errs,
     sent |-> acc.sent \o sv.sent]

\* the loop, leaving at the first save that fails
RECURSIVE saveFields_StopAtFirst(_, _, _, _)
saveFields_StopAtFirst(setting, fails, i, acc) ==
    IF i > Len(Fields) \/ acc.errs # <<>> THEN acc
    ELSE LET key == Fields[i].key
             value == Sprint(setting[key], Fields[i].type)
         IN saveFields_StopAtFirst(setting, fails, i + 1,
                collect(acc, key,
                    saveSetting(acc.store, key, value,
                                FailGet(fails[key]), FailWrite(fails[key]))))

\* the loop of UpdateAllSetting from field i on
RECURSIVE saveFields(_, _, _, _)
saveFields(setting, fails, i, acc) ==
    IF i > Len(Fields) THEN acc
    ELSE LET key == Fields[i].key
             value == Sprint(setting[key], Fields[i].type)
         IN saveFields(setting, fails, i + 1,
                collect(acc, key,
                    saveSetting(acc.store, key, value,
                                FailGet(fails[key]), FailWrite(fails[key]))))

\* what UpdateAllSetting does once the loop has left r: the bulk upload
\* when no save failed, and the combined error
afterLoop(setting, r) ==
    [store |-> r.store,
     err |-> Combine(r.errs),
     sent |-> IF Len(r.errs) = 0 THEN Append(r.sent, UploadAll(setting)) ELSE r.sent]

\* UpdateAllSetting that saves the fields before it looks at CheckValid
UpdateAllSetting_ValidateLast(st, setting, fails) ==
    IF CheckValid(setting) # Nil
    THEN [store |-> saveFields(setting, fails, 1,
                        [store |-> st, errs |-> <<>>, sent |-> <<>>]).store,
          err |-> CheckValid(setting), sent |-> <<>>]
    ELSE afterLoop(setting,
             saveFields(setting, fails, 1, [store |-> st, errs |-> <<>>, sent |-> <<>>]))

UpdateAllSetting(st, setting, fails) ==
    IF CheckValid(setting) # Nil
    THEN [store |-> st, err |-> CheckValid(setting), sent |-> <<>>]
    ELSE afterLoop(setting,
             saveFields(setting, fails, 1, [store |-> st, errs |-> <<>>, sent |-> <<>>]))

----------------------------------------------------------------------------
(* Inputs offered to the operations *)

\* ports offered to SetPort, which accepts any int
PortInputs == {0 - 1, 80, 65536}

PathInputs == StrsUpTo({"/", "x"}, MaxPathLen) \cup { <<"a", "p", "i">>, <<"/", "x", "/">> }

\* <<port, base path>> of the aggregates a caller may submit; the first and
\* the last port are outside the valid range
SettingChoices ==
    { <<0, <<"/">> >>, <<80, <<"/">> >>, <<65535, <<"x">> >>, <<65536, <<"x">> >> }

\* the other fields carry values that differ from their defaults
SettingOf(port, path) ==
    [k \in FieldKeys |->
        CASE k = "webPort" -> port
          [] k = "webBasePath" -> path
          [] k = "webListen" -> <<":", ":">>
          [] k = "webCertFile" -> <<"c">>
          [] k = "webKeyFile" -> <<"k">>
          [] k = "xrayTemplateConfig" -> <<"{", "1", "}">>
          [] k = "timeLocation" -> <<"U", "T", "C">>
          [] OTHER -> <<"u">>]

SettingInputs == { SettingOf(c[1], c[2]) : c \in SettingChoices }

\* which of a bulk write's per-key saves fail, and in which database call:
\* at most MaxFail keys, all in the lookup or all in the write
FailPatterns ==
    { [k \in FieldKeys |-> IF k \in failing THEN how ELSE "ok"] :
        failing \in { F \in SUBSET FieldKeys : Cardinality(F) <= MaxFail },
        how \in {"get", "write"} }

\* <<key, value>> pairs written one key at a time
AggregateStringInputs ==
    { <<"webPort", <<"x">> >>, <<"webPort", <<"+", "7">> >> }

AccessorStringInputs ==
    { <<"webBasePath", v>> : v \in PathInputs }
    \cup { <<"secret", v>> : v \in SecretSeeds \cup { OldSecret } }
    \cup { <<"webPort", <<"x">> >>, <<"other", <<"o">> >> }

\* strings written to the port's row: 2^31-1, 2^31, one signed and two
\* that are no number
IntStringInputs ==
    { <<"webPort", v>> :
        v \in { <<"2", "1", "4", "7", "4", "8", "3", "6", "4", "7">>,
                <<"2", "1", "4", "7", "4", "8", "3", "6", "4", "8">>,
                <<"+", "7">>, <<"x">>, <<>> } }

\* zone names written to the row: two that resolve everywhere, one that the
\* zone database may hold and one that it never holds
ZoneStringInputs ==
    { <<"timeLocation", v>> :
        v \in { UTC, <<"L", "o", "c", "a", "l">>, <<"A", "s", "i", "a", "/", "S", "h", "a", "n", "g", "h", "a", "i">>,
                <<"M", "a", "r", "s">> } }

\* the zone names the system's zone database may hold: none at all, or the
\* default catalog's
TzDatabases == { {}, { defaultValueMap(<<>>)["timeLocation"] } }

\* keys read as integers
IntKeys == {"webPort", "other"}

\* the callers that run at the same time
Procs == {"a", "b"}

\* a caller between two calls
Idle == [pc |-> "idle"]

\* what the concurrent callers submit: two aggregates that differ in port and
\* base path and one that is rejected, and a port written on its own
ConcurrentSettingInputs ==
    { SettingOf(80, <<"/">>), SettingOf(65535, <<"x">>), SettingOf(0, <<"/">>) }
ConcurrentStringInputs == { <<"webPort", <<"8", "1">> >> }

\* single-key writes made while uploads are running
DetachedStringInputs == { <<"webPort", <<"8", "1">> >> }

\* a port written with SetPort while uploads are running
DetachedPortInputs == { 8080 }

\* bulk writes made while uploads are running: one aggregate that is accepted
\* and one that is not; every save works, or the port's write fails
DetachedSettingInputs == { SettingOf(80, <<"/">>), SettingOf(0, <<"/">>) }
DetachedFailPatterns ==
    { [k \in FieldKeys |-> "ok"],
      [k \in FieldKeys |-> IF k = "webPort" THEN "write" ELSE "ok"] }

----------------------------------------------------------------------------
(* The state machine *)

dvm == defaultValueMap(defaultSecret)

Init ==
    /\ store = EmptyStore
    /\ defaultSecret \in SecretSeeds
    /\ last = [op |-> "init"]
    /\ sent = <<>>
    /\ schema = AllSetting
    /\ procs = [p \in Procs |-> Idle]
    /\ inflight = 0
    /\ logged = "none"
    /\ alive = TRUE

\* a rejected aggregate reaches no database call, so no outcome is drawn for it
NoFail == [k \in FieldKeys |-> "ok"]

CallUpdateAllSetting ==
    \E setting \in SettingInputs :
      \E fails \in (IF CheckValid(setting) = Nil THEN FailPatterns ELSE {NoFail}) :
        \E r \in { UpdateAllSetting(store, setting, fails) } :
        /\ store' = r.store
        /\ sent' = r.sent
        /\ last' = [op |-> "UpdateAllSetting", setting |-> setting, fails |-> fails,
                    had |-> Cardinality(RowKeys(store)), err |-> r.err]
        /\ UNCHANGED rest

CallGetAllSetting ==
    \E f \in ReadFailures :
        \E r \in { GetAllSetting(store, dvm, f) } :
        /\ last' = [op |-> "GetAllSetting", f |-> f, ret |-> r.setting, err |-> r.err]
        /\ sent' = <<>>
        /\ UNCHANGED <<store, rest>>

CallResetSettings ==
    \E f \in WriteFailures :
        \E r \in { ResetSettings(store, f) } :
        /\ store' = r.store
        /\ sent' = r.sent
        /\ last' = [op |-> "ResetSettings", had |-> Cardinality(RowKeys(store)), err |-> r.err]
        /\ UNCHANGED rest

\* the outcomes the database calls of one saveSetting report: the write is
\* reached, and has an outcome, only when the lookup did not fail
SaveOutcomes ==
    { <<fget, fwrite>> \in ReadFailures \X WriteFailures : fget = Nil \/ fwrite = Nil }

CallSetString(inputs) ==
    \E kv \in inputs, <<fget, fwrite>> \in SaveOutcomes :
        \E r \in { setString(store, kv[1], kv[2], fget, fwrite) } :
        /\ store' = r.store
        /\ sent' = r.sent
        /\ last' = [op |-> "setString", key |-> kv[1], value |-> kv[2],
                    fget |-> fget, fwrite |-> fwrite, err |-> r.err]
        /\ UNCHANGED rest

CallSetPort ==
    \E port \in PortInputs, <<fget, fwrite>> \in SaveOutcomes :
        \E r \in { setInt(store, "webPort", port, fget, fwrite) } :
        /\ store' = r.store
        /\ sent' = r.sent
        /\ last' = [op |-> "SetPort", port |-> port, err |-> r.err]
        /\ UNCHANGED rest

\* getString called so that a value taken from the catalog is saved as a row
CallGetString_WritesBack ==
    \E key \in Keys, f \in ReadFailures :
        \E r \in { getString(store, dvm, key, f) } :
        \E w \in { IF r.err = Nil /\ ~HasRow(store, key)
                   THEN saveSetting(store, key, r.value, Nil, Nil)
                   ELSE [store |-> store, err |-> Nil, sent |-> <<>>] } :
        /\ last' = [op |-> "getString", key |-> key, f |-> f, ret |-> r.value, err |-> r.err]
        /\ store' = w.store
        /\ sent' = w.sent
        /\ UNCHANGED rest

CallGetString ==
    \E key \in Keys, f \in ReadFailures :
        \E r \in { getString(store, dvm, key, f) } :
        /\ last' = [op |-> "getString", key |-> key, f |-> f, ret |-> r.value, err |-> r.err]
        /\ sent' = <<>>
        /\ UNCHANGED <<store, rest>>

CallGetBasePath ==
    \E f \in ReadFailures :
        \E r \in { GetBasePath(store, dvm, f) } :
        /\ last' = [op |-> "GetBasePath", f |-> f, ret |-> r.value, err |-> r.err]
        /\ sent' = <<>>
        /\ UNCHANGED <<store, rest>>

CallGetSecret ==
    \E f \in ReadFailures, <<fget, fwrite>> \in SaveOutcomes :
        \E r \in { GetSecret(store, dvm, f, fget, fwrite) } :
        /\ store' = r.store
        /\ sent' = r.sent
        /\ last' = [op |-> "GetSecret", f |-> f, fget |-> fget, fwrite |-> fwrite,
                    ret |-> r.value, err |-> r.err]
        /\ UNCHANGED rest

CallGetInt ==
    \E key \in IntKeys, f \in ReadFailures :
        \E r \in { getInt(store, dvm, key, f) } :
        /\ last' = [op |-> "getInt", key |-> key, f |-> f, ret |-> r.value, err |-> r.err]
        /\ sent' = <<>>
        /\ UNCHANGED <<store, rest>>

CallGetTimeLocation ==
    \E f \in ReadFailures, tzdb \in TzDatabases :
        \E r \in { GetTimeLocation(store, dvm, f, tzdb) } :
        /\ last' = [op |-> "GetTimeLocation", f |-> f, tzdb |-> tzdb,
                    ret |-> r.location, err |-> r.err]
        /\ sent' = <<>>
        /\ UNCHANGED <<store, rest>>

\* the aggregate's operations, with the single-key writes that feed them
Next ==
    \/ CallUpdateAllSetting
    \/ CallGetAllSetting
    \/ CallResetSettings
    \/ CallSetString(AggregateStringInputs)
    \/ CallSetPort

Spec == Init /\ [][Next]_vars

\* the single-key accessors, with the aggregate read over the rows they leave
NextAccessors ==
    \/ CallSetString(AccessorStringInputs)
    \/ CallGetString
    \/ CallGetBasePath
    \/ CallGetSecret
    \/ CallGetInt
    \/ CallGetTimeLocation
    \/ CallGetAllSetting
    \/ CallResetSettings

SpecAccessors == Init /\ [][NextAccessors]_vars

\* the two reads of an integer setting, with the writes of its row
NextInt ==
    \/ CallSetString(IntStringInputs)
    \/ CallSetPort
    \/ CallGetInt
    \/ CallGetAllSetting
    \/ CallResetSettings

SpecInt == Init /\ [][NextInt]_vars

\* the time zone's accessor, with the writes of its row
NextZone ==
    \/ CallSetString(ZoneStringInputs)
    \/ CallGetTimeLocation
    \/ CallGetString
    \/ CallResetSettings

SpecZone == Init /\ [][NextZone]_vars

\* The writes with the goroutines they start left running.  A call returns
\* as soon as its goroutines are started; each goroutine ends on its own.

SetStringDetached ==
    /\ alive
    /\ \E kv \in DetachedStringInputs, <<fget, fwrite>> \in SaveOutcomes :
        \E r \in { setString(store, kv[1], kv[2], fget, fwrite) } :
        /\ inflight + Len(r.sent) <= MaxInflight
        /\ store' = r.store
        /\ sent' = r.sent
        /\ inflight' = inflight + Len(r.sent)
        /\ last' = [op |-> "setString", key |-> kv[1], value |-> kv[2],
                    fget |-> fget, fwrite |-> fwrite, err |-> r.err]
        /\ UNCHANGED <<defaultSecret, schema, procs, logged, alive>>

UpdateAllSettingDetached ==
    /\ alive
    /\ \E setting \in DetachedSettingInputs :
      \E fails \in (IF CheckValid(setting) = Nil THEN DetachedFailPatterns ELSE {NoFail}) :
        \E r \in { UpdateAllSetting(store, setting, fails) } :
        /\ inflight + Len(r.sent) <= MaxInflight
        /\ store' = r.store
        /\ sent' = r.sent
        /\ inflight' = inflight + Len(r.sent)
        /\ last' = [op |-> "UpdateAllSetting", setting |-> setting, fails |-> fails,
                    err |-> r.err]
        /\ UNCHANGED <<defaultSecret, schema, procs, logged, alive>>

ResetSettingsDetached ==
    /\ alive
    /\ \E f \in WriteFailures :
        \E r \in { ResetSettings(store, f) } :
        /\ inflight + Len(r.sent) <= MaxInflight
        /\ store' = r.store
        /\ sent' = r.sent
        /\ inflight' = inflight + Len(r.sent)
        /\ last' = [op |-> "ResetSettings", f |-> f, err |-> r.err]
        /\ UNCHANGED <<defaultSecret, schema, procs, logged, alive>>

SetPortDetached ==
    /\ alive
    /\ \E port \in DetachedPortInputs, <<fget, fwrite>> \in SaveOutcomes :
        \E r \in { setInt(store, "webPort", port, fget, fwrite) } :
        /\ inflight + Len(r.sent) <= MaxInflight
        /\ store' = r.store
        /\ sent' = r.sent
        /\ inflight' = inflight + Len(r.sent)
        /\ last' = [op |-> "SetPort", port |-> port,
                    fget |-> fget, fwrite |-> fwrite, err |-> r.err]
        /\ UNCHANGED <<defaultSecret, schema, procs, logged, alive>>

GetSecretDetached ==
    /\ alive
    /\ \E f \in ReadFailures, <<fget, fwrite>> \in SaveOutcomes :
        \E r \in { GetSecret(store, dvm, f, fget, fwrite) } :
        /\ inflight + Len(r.sent) <= MaxInflight
        /\ store' = r.store
        /\ sent' = r.sent
        /\ inflight' = inflight + Len(r.sent)
        /\ last' = [op |-> "GetSecret", f |-> f, fget |-> fget, fwrite |-> fwrite,
                    ret |-> r.value, err |-> r.err]
        /\ UNCHANGED <<defaultSecret, schema, procs, logged, alive>>

\* one upload goroutine runs to its end
UploadEnds ==
    /\ alive
    /\ inflight > 0
    /\ \E outcome \in SinkOutcomes :
        \E g \in { runUpload(outcome) } :
        /\ inflight' = inflight - 1
        /\ logged' = g.logged
        /\ alive' = g.alive
        /\ UNCHANGED <<store, defaultSecret, last, sent, schema, procs>>

NextDetached ==
    \/ SetStringDetached
    \/ UpdateAllSettingDetached
    \/ ResetSettingsDetached
    \/ SetPortDetached
    \/ GetSecretDetached
    \/ UploadEnds

SpecDetached == Init /\ [][NextDetached]_vars

\* Callers that run at the same time.  A caller's saveSetting is two steps,
\* the lookup and the write, and other callers' steps may fall between them.
\* Database calls do not fail here except for the refused insert.

\* a caller entering saveSetting for the pairs of todo, one after the other
Saving(op, arg, todo) ==
    [pc |-> "lookup", op |-> op, arg |-> arg, todo |-> todo, found |-> FALSE, errs |-> <<>>]

Done(op, arg, err) == [pc |-> "done", op |-> op, arg |-> arg, err |-> err]

\* what the call returns once its last saveSetting has returned
resultOf(op, errs) ==
    CASE op = "UpdateAllSetting" -> Combine(errs)
      [] op = "setString" -> IF errs = <<>> THEN Nil ELSE errs[1]
      [] op = "GetSecret" -> Nil

CanBegin(p) == procs[p].pc \in {"idle", "done"}

BeginUpdateAllSetting(p) ==
    /\ CanBegin(p)
    /\ \E setting \in ConcurrentSettingInputs :
        procs' = [procs EXCEPT ![p] =
                    IF CheckValid(setting) # Nil
                    THEN Done("UpdateAllSetting", setting, CheckValid(setting))
                    ELSE Saving("UpdateAllSetting", setting, flattenToRows(setting))]
    /\ sent' = <<>>
    /\ UNCHANGED <<store, defaultSecret, last, schema, inflight, logged, alive>>

BeginSetString(p) ==
    /\ CanBegin(p)
    /\ \E kv \in ConcurrentStringInputs :
        procs' = [procs EXCEPT ![p] = Saving("setString", kv, << kv >>)]
    /\ sent' = <<>>
    /\ UNCHANGED <<store, defaultSecret, last, schema, inflight, logged, alive>>

\* GetSecret up to its saveSetting: the secret is read, and saved when it is
\* the catalog's
BeginGetSecret(p) ==
    /\ CanBegin(p)
    /\ \E r \in { getString(store, dvm, "secret", Nil) } :
        procs' = [procs EXCEPT ![p] =
                    IF r.value = dvm["secret"]
                    THEN Saving("GetSecret", r.value, << <<"secret", r.value>> >>)
                    ELSE Done("GetSecret", r.value, Nil)]
    /\ sent' = <<>>
    /\ UNCHANGED <<store, defaultSecret, last, schema, inflight, logged, alive>>

\* getSetting inside saveSetting
Lookup(p) ==
    /\ procs[p].pc = "lookup"
    /\ procs' = [procs EXCEPT ![p].pc = "write",
                              ![p].found = getSetting(store, Head(procs[p].todo)[1], Nil).found]
    /\ sent' = <<>>
    /\ UNCHANGED <<store, defaultSecret, last, schema, inflight, logged, alive>>

\* Create or Save inside saveSetting, the upload that follows a write that
\* worked, and, after the last pair, the rest of the call
Write(p) ==
    /\ procs[p].pc = "write"
    /\ LET pr == procs[p]
           key == Head(pr.todo)[1]
           value == Head(pr.todo)[2]
       IN \E w \in { IF pr.found THEN Save(store, key, value) ELSE Create(store, key, value) } :
          \E errs \in { IF w.err # Nil THEN Append(pr.errs, w.err) ELSE pr.errs } :
            /\ store' = w.store
            /\ procs' = [procs EXCEPT ![p] =
                           IF Len(pr.todo) > 1
                           THEN [pr EXCEPT !.pc = "lookup", !.todo = Tail(pr.todo), !.errs = errs]
                           ELSE Done(pr.op, pr.arg, resultOf(pr.op, errs))]
            /\ sent' = (IF w.err = Nil THEN << Upload(key, value) >> ELSE <<>>)
                       \o (IF Len(pr.todo) = 1 /\ pr.op = "UpdateAllSetting" /\ errs = <<>>
                           THEN << UploadAll(pr.arg) >> ELSE <<>>)
    /\ UNCHANGED <<defaultSecret, last, schema, inflight, logged, alive>>

NextConcurrent ==
    \E p \in Procs :
        \/ BeginUpdateAllSetting(p)
        \/ BeginSetString(p)
        \/ BeginGetSecret(p)
        \/ Lookup(p)
        \/ Write(p)

SpecConcurrent == Init /\ [][NextConcurrent]_vars

\* The bulk operations over whichever aggregate type the service is built
\* with: UpdateAllSetting and GetAllSetting take the fields from reflection
\* and are written for any of them.

Schemas == { AllSetting, AllSettingUntagged, AllSettingNoDefault }

InitSchema ==
    /\ store = EmptyStore
    /\ defaultSecret \in SecretSeeds
    /\ last = [op |-> "init"]
    /\ sent = <<>>
    /\ schema \in Schemas
    /\ procs = [p \in Procs |-> Idle]
    /\ inflight = 0
    /\ logged = "none"
    /\ alive = TRUE

NextSchema ==
    \/ CallUpdateAllSetting
    \/ CallGetAllSetting
    \/ CallResetSettings

SpecSchema == InitSchema /\ [][NextSchema]_vars

----------------------------------------------------------------------------
(* Properties *)

\* the value a field holds for a stored or default string
Typed(key, str) == IF FieldType(key) = "int" THEN ParseInt32(str).n ELSE str

\* the keys whose save the database failed in the last bulk write
Failing == { k \in FieldKeys : last.fails[k] # "ok" }

StartsWithSlash(s) == Len(s) > 0 /\ s[1] = "/"
EndsWithSlash(s) == Len(s) > 0 /\ s[Len(s)] = "/"

\* an optional sign followed by one or more decimal digits
IsDecimal(s) ==
    LET body == IF s # <<>> /\ s[1] \in {"+", "-"} THEN Tail(s) ELSE s IN
    body # <<>> /\ \A i \in 1..Len(body) : IsDigit(body[i])

\* C1: when GetAllSetting succeeds, every aggregate field with a catalog
\* entry holds the stored row's value if the key has a row, and the
\* catalog's default if it has none.
C1_StoredElseDefault ==
    (last.op = "GetAllSetting" /\ last.err = Nil) =>
        \A k \in FieldKeys \cap CatalogKeys :
            last.ret[k] = Typed(k, IF HasRow(store, k) THEN store[k][1] ELSE dvm[k])

\* GetAllSetting succeeded with a stored port that is not the default and
\* with no row for the base path
C1_Witness ==
    /\ last.op = "GetAllSetting" /\ last.err = Nil
    /\ store["webPort"] = << <<"8", "0">> >>
    /\ ~HasRow(store, "webBasePath")
    /\ last.ret["webPort"] = 80
    /\ last.ret["webBasePath"] = <<"/">>

\* C2: after UpdateAllSetting(A) returned nil, GetAllSetting on the table it
\* left returns A, field for field, whether or not the keys had rows before.
C2_RoundTrip ==
    (last.op = "UpdateAllSetting" /\ last.err = Nil) =>
        /\ GetAllSetting(store, dvm, Nil).err = Nil
        /\ \A k \in FieldKeys : GetAllSetting(store, dvm, Nil).setting[k] = last.setting[k]

\* a bulk write succeeded on a table that held one row, the port's (the only
\* key written alone here): it overwrote that row and inserted the others
C2_Witness ==
    /\ last.op = "UpdateAllSetting" /\ last.err = Nil
    /\ last.had = 1
    /\ last.setting["webPort"] = 65535
    /\ store["webPort"] = << <<"6", "5", "5", "3", "5">> >>

\* C3: a successful ResetSettings leaves no row, and GetAllSetting then
\* returns every field with a catalog entry at its default.
C3_ResetThenRead ==
    (last.op = "ResetSettings" /\ last.err = Nil) =>
        /\ \A k \in Keys : ~HasRow(store, k)
        /\ GetAllSetting(store, dvm, Nil).err = Nil
        /\ GetAllSetting(store, dvm, Nil) = GetAllSetting(EmptyStore, dvm, Nil)
        /\ \A k \in FieldKeys \cap CatalogKeys :
               GetAllSetting(store, dvm, Nil).setting[k] = Typed(k, dvm[k])

\* a reset succeeded on a table that held a row for every field
C3_Witness ==
    /\ last.op = "ResetSettings" /\ last.err = Nil
    /\ last.had = Cardinality(FieldKeys)

\* C4: with a row for the integer field webPort whose value is not a
\* base-10 integer, GetAllSetting returns an error and no aggregate.
C4_BadIntFailsRead ==
    (last.op = "GetAllSetting" /\ HasRow(store, "webPort")
        /\ \E i \in 1..Len(store["webPort"]) : ~IsDecimal(store["webPort"][i])) =>
        last.err # Nil /\ last.ret = NoSetting

\* the read failed in ParseInt on the stored port "x"
C4_Witness ==
    /\ last.op = "GetAllSetting"
    /\ store["webPort"] = << <<"x">> >>
    /\ last.err = NumError("ParseInt", <<"x">>, "syntax")

\* C5: when CheckValid rejects the aggregate, UpdateAllSetting returns that
\* error, changes no row and dispatches no notification.
C5_InvalidWritesNothing ==
    [][(last'.op = "UpdateAllSetting" /\ CheckValid(last'.setting) # Nil) =>
            /\ last'.err = CheckValid(last'.setting)
            /\ store' = store
            /\ sent' = <<>>]_vars

\* a rejected bulk write, on a table that has rows
C5_Witness ==
    /\ last.op = "UpdateAllSetting"
    /\ last.err = InvalidPort(65536)
    /\ last.had > 0
    /\ store["webPort"] = << <<"8", "0">> >>

\* C6: in a bulk write that passed validation, every key whose save did not
\* fail holds its new value, and the returned error is non-nil exactly when
\* some key's save failed.
C6_IndependentWrites ==
    (last.op = "UpdateAllSetting" /\ CheckValid(last.setting) = Nil) =>
        /\ \A k \in FieldKeys \ Failing :
               store[k] = << Sprint(last.setting[k], FieldType(k)) >>
        /\ (last.err # Nil) <=> (Failing # {})

\* the port's save failed; the field before it and the fields after it
\* were inserted
C6_Witness ==
    /\ last.op = "UpdateAllSetting"
    /\ Failing = {"webPort"}
    /\ last.had = 0
    /\ store["webListen"] = << <<":", ":">> >>
    /\ store["timeLocation"] = << <<"U", "T", "C">> >>
    /\ last.err # Nil

\* an error that says which key it is about
ErrorNamesKey(e, key) == "key" \in DOMAIN e /\ e.key = key

\* C7: the error of a partially failed bulk write has, for every key whose
\* save failed, an entry that names that key.
C7_ErrorNamesFailedKeys ==
    (last.op = "UpdateAllSetting" /\ CheckValid(last.setting) = Nil /\ Failing # {}) =>
        /\ last.err.kind = "multi"
        /\ \A k \in Failing :
               \E i \in 1..Len(last.err.errs) : ErrorNamesKey(last.err.errs[i], k)

\* the string GetBasePath read: the row's value, else the default
StoredBasePath == IF HasRow(store, "webBasePath") THEN store["webBasePath"][1] ELSE dvm["webBasePath"]

\* C8: GetBasePath returns a string that starts and ends with "/": the
\* stored one when it already does, else the stored one with "/" added in
\* front, at the end, or both; "api" gives "/api/", "/x/" gives "/x/" and
\* "" gives "/".
C8_BasePathNormalized ==
    (last.op = "GetBasePath" /\ last.err = Nil) =>
        LET s == StoredBasePath
            front == IF StartsWithSlash(s) THEN <<>> ELSE <<"/">>
            back == IF EndsWithSlash(front \o s) THEN <<>> ELSE <<"/">>
        IN /\ StartsWithSlash(last.ret) /\ EndsWithSlash(last.ret)
           /\ (StartsWithSlash(s) /\ EndsWithSlash(s)) => last.ret = s
           /\ last.ret = front \o s \o back
           /\ s = <<"a", "p", "i">> => last.ret = <<"/", "a", "p", "i", "/">>
           /\ s = <<"/", "x", "/">> => last.ret = <<"/", "x", "/">>
           /\ s = <<>> => last.ret = <<"/">>

\* GetBasePath answered "/" for a stored empty base path
C8_Witness ==
    /\ last.op = "GetBasePath" /\ last.err = Nil
    /\ store["webBasePath"] = << <<>> >>
    /\ last.ret = <<"/">>

\* C9: GetSecret returns what getString("secret") returns, whatever the save
\* does; when that is the process default and the save succeeds, the table
\* then holds one row for "secret" with the returned value; when the save
\* fails the table is as before.
C9_SecretPinned ==
    [][last'.op = "GetSecret" =>
            /\ last'.ret = getString(store, dvm, "secret", last'.f).value
            /\ last'.err = getString(store, dvm, "secret", last'.f).err
            /\ (last'.ret = defaultSecret /\ last'.fget = Nil /\ last'.fwrite = Nil)
                   => store'["secret"] = << last'.ret >>
            /\ (last'.ret = defaultSecret /\ (last'.fget # Nil \/ last'.fwrite # Nil))
                   => store' = store]_vars

\* GetSecret resolved the default and pinned it
C9_Witness ==
    /\ last.op = "GetSecret" /\ last.err = Nil
    /\ last.ret = defaultSecret
    /\ store["secret"] = << defaultSecret >>
    /\ sent = << Upload("secret", defaultSecret) >>

\* C10: when the lookup itself works, getString returns the row's value if
\* the key has a row, else the catalog's entry, else a configuration error
\* and the empty string.
C10_GetStringFallback ==
    (last.op = "getString" /\ last.f = Nil) =>
        IF HasRow(store, last.key)
        THEN last.err = Nil /\ last.ret = store[last.key][1]
        ELSE IF last.key \in CatalogKeys
        THEN last.err = Nil /\ last.ret = dvm[last.key]
        ELSE last.err = ConfigErr(last.key) /\ last.ret = <<>>

\* getString failed for a key with neither a row nor a catalog entry
C10_Witness ==
    /\ last.op = "getString" /\ last.key = "other"
    /\ ~HasRow(store, "other")
    /\ last.err = ConfigErr("other")

\* what each read returns in place of a value when it fails
NoValue(op) ==
    CASE op = "getString" -> <<>>
      [] op = "GetBasePath" -> <<>>
      [] op = "getInt" -> 0
      [] op = "GetTimeLocation" -> NoLocation
      [] op = "GetAllSetting" -> NoSetting

\* C11: when the database reports a failure other than not-found, getString,
\* getInt, GetBasePath, GetTimeLocation and GetAllSetting return that error
\* and no value, and setString (saveSetting) returns it and leaves every row
\* as it was, with nothing dispatched.
C11_StorageErrorPassesThrough ==
    [][/\ (last'.op \in {"getString", "getInt", "GetBasePath", "GetTimeLocation", "GetAllSetting"}
              /\ last'.f # Nil) =>
              /\ last'.err = last'.f
              /\ last'.ret = NoValue(last'.op)
              /\ store' = store
       /\ (last'.op = "setString" /\ (last'.fget # Nil \/ last'.fwrite # Nil)) =>
              /\ last'.err = (IF last'.fget # Nil THEN last'.fget ELSE last'.fwrite)
              /\ store' = store
              /\ sent' = <<>>]_vars

\* GetBasePath returned the database's error although the catalog has a
\* default for the key, which has no row
C11_Witness ==
    /\ last.op = "GetBasePath"
    /\ last.f = StorageErr("read")
    /\ last.err = StorageErr("read")
    /\ last.ret = <<>>
    /\ ~HasRow(store, "webBasePath")

\* C12: the result a write returns and the table it leaves are those of the
\* storage outcomes alone, whatever upload goroutines are running and however
\* any of them ended; a goroutine that ends, in whichever way, changes neither
\* the table nor a caller's result, and never takes the process down.
C12_NotificationIsolation ==
    [][/\ alive'
       /\ inflight' < inflight =>
              /\ store' = store
              /\ last' = last
       /\ (inflight' >= inflight /\ last'.op = "setString") =>
              \E r \in { setString(store, last'.key, last'.value, last'.fget, last'.fwrite) } :
                  store' = r.store /\ last'.err = r.err
       /\ (inflight' >= inflight /\ last'.op = "SetPort") =>
              \E r \in { setInt(store, "webPort", last'.port, last'.fget, last'.fwrite) } :
                  store' = r.store /\ last'.err = r.err
       /\ (inflight' >= inflight /\ last'.op = "UpdateAllSetting") =>
              \E r \in { UpdateAllSetting(store, last'.setting, last'.fails) } :
                  store' = r.store /\ last'.err = r.err
       /\ (inflight' >= inflight /\ last'.op = "ResetSettings") =>
              \E r \in { ResetSettings(store, last'.f) } :
                  store' = r.store /\ last'.err = r.err]_vars

\* a bulk write has returned success while an upload has already panicked
\* and others are still running
C12_Witness ==
    /\ last.op = "UpdateAllSetting"
    /\ last.err = Nil
    /\ logged = "panic recovered"
    /\ inflight > 0
    /\ alive

\* the pair a caller's write step is about to write
WritingKey(p) == Head(procs[p].todo)[1]
WritingValue(p) == Head(procs[p].todo)[2]

\* C13: under any interleaving of the callers' saveSetting steps no key has
\* more than one row, and every write leaves its value in the key's one row:
\* the first write creates the row and a later one overwrites it.
C13_OneRowEveryWriteLands ==
    [][/\ \A k \in Keys : Len(store'[k]) <= 1
       /\ \A p \in Procs :
            (procs[p].pc = "write" /\ procs'[p] # procs[p]) =>
                store'[WritingKey(p)] = << WritingValue(p) >>]_vars

\* both callers have returned from UpdateAllSetting without an error
BothUpdated ==
    \A p \in Procs :
        /\ procs[p].pc = "done"
        /\ procs[p].op = "UpdateAllSetting"
        /\ procs[p].err = Nil

\* C14: once two callers' UpdateAllSetting calls have both returned without
\* an error, a read gives every field the value one of the two aggregates
\* had for it; the aggregate read need not be either of the two.
C14_LastWriterWinsPerKey ==
    BothUpdated =>
        \E r \in { GetAllSetting(store, dvm, Nil) } :
            /\ r.err = Nil
            /\ \A k \in FieldKeys : r.setting[k] \in { procs[p].arg[k] : p \in Procs }

\* both calls returned without an error and the aggregate read back is a
\* mix: it is neither caller's
C14_Witness ==
    /\ BothUpdated
    /\ GetAllSetting(store, dvm, Nil).err = Nil
    /\ \A p \in Procs : GetAllSetting(store, dvm, Nil).setting # procs[p].arg

\* C15: no bulk write creates a row whose key is the empty string, and none
\* dispatches an upload for the empty key: a field without a tag is left out
\* of the rows UpdateAllSetting writes.
C15_NoRowForEmptyKey ==
    /\ ~HasRow(store, "")
    /\ \A i \in 1..Len(sent) : sent[i].kind = "setting" => sent[i].key # ""

\* the fields that have neither a row nor a catalog entry
Unsupplied == { k \in FieldKeys : ~HasRow(store, k) /\ k \notin DOMAIN dvm }

\* C16: a GetAllSetting whose query worked, made while some field has neither
\* a row nor a catalog entry, returns a configuration error and no aggregate.
C16_UnsuppliedFieldFailsRead ==
    (last.op = "GetAllSetting" /\ last.f = Nil /\ Unsupplied # {}) =>
        /\ last.err # Nil
        /\ last.err.kind = "config"
        /\ last.ret = NoSetting

\* the table without the rows whose key no field carries
FieldRowsOnly(st) == [k \in StoreKeys |-> IF k \in FieldKeys THEN st[k] ELSE <<>>]

\* the catalog without the entries whose key no field carries
FieldDefaultsOnly(d) == [k \in (DOMAIN d) \cap FieldKeys |-> d[k]]

\* C17: what GetAllSetting returns, aggregate and error alike, is what it
\* returns for the table and the catalog with every row and entry removed
\* whose key no field carries.
C17_ForeignKeysIgnored ==
    (last.op = "GetAllSetting" /\ last.f = Nil) =>
        \E r \in { GetAllSetting(FieldRowsOnly(store), FieldDefaultsOnly(dvm), Nil) } :
            /\ last.err = r.err
            /\ last.ret = r.setting

\* an aggregate was read while the table held a row for "secret" and one for
\* "other", neither of them a field
C17_Witness ==
    /\ last.op = "GetAllSetting"
    /\ last.f = Nil
    /\ last.err = Nil
    /\ HasRow(store, "secret")
    /\ HasRow(store, "other")
    /\ last.ret # NoSetting

\* the uploads of sent that carry one key's value
SentFor(key) == { i \in 1..Len(sent) : sent[i].kind = "setting" /\ sent[i].key = key }

\* the bulk uploads of sent
SentBulk == { i \in 1..Len(sent) : sent[i].kind = "bulk" }

\* C18: an upload for a key is dispatched only by a call that has written
\* that key's row, which holds the uploaded value when the call returns; a
\* save or a reset that failed dispatches none; the reset's upload goes out
\* only with the table emptied; and UpdateAllSetting dispatches the
\* aggregate's upload, after the keys', exactly when every save worked.
C18_UploadsFollowWrites ==
    /\ \A i \in 1..Len(sent) :
          (sent[i].kind = "setting" /\ sent[i] # ResetUpload) =>
              /\ HasRow(store, sent[i].key)
              /\ Head(store[sent[i].key]) = sent[i].value
    /\ (\E i \in 1..Len(sent) : sent[i] = ResetUpload) =>
          /\ last.op = "ResetSettings"
          /\ last.err = Nil
          /\ store = EmptyStore
    /\ (last.op \in {"setString", "SetPort", "ResetSettings"} /\ last.err # Nil) => sent = <<>>
    /\ (last.op = "GetSecret" /\ (last.f # Nil \/ last.fget # Nil \/ last.fwrite # Nil)) =>
          sent = <<>>
    /\ last.op = "UpdateAllSetting" =>
          /\ \A k \in FieldKeys : last.fails[k] # "ok" => SentFor(k) = {}
          /\ SentBulk # {} <=>
                (CheckValid(last.setting) = Nil /\ \A k \in FieldKeys : last.fails[k] = "ok")
          /\ SentBulk # {} => SentBulk = {Len(sent)} /\ sent[Len(sent)] = UploadAll(last.setting)

\* a bulk write one of whose saves failed: the keys that were written have
\* their uploads, the failed key has none and no aggregate upload went out
C18_Witness ==
    /\ last.op = "UpdateAllSetting"
    /\ last.err # Nil
    /\ last.fails["webPort"] = "write"
    /\ SentFor("webListen") # {}
    /\ SentFor("webPort") = {}
    /\ SentBulk = {}

\* the zone name in force: the row's if there is one, else the catalog's
ZoneName == IF HasRow(store, "timeLocation") THEN Head(store["timeLocation"])
            ELSE dvm["timeLocation"]

Resolves(name, tzdb) == LoadLocation(name, tzdb).err = Nil

\* C19: GetTimeLocation changes no row.  When the setting cannot be read it
\* returns that error; when the name in force resolves it returns that
\* zone; otherwise it returns the zone of the catalog's name, or, when that
\* name does not resolve either, the error of resolving it.
C19_ZoneFallsBackToDefault ==
    [][last'.op = "GetTimeLocation" =>
        /\ store' = store
        /\ sent' = <<>>
        /\ last'.f # Nil => (last'.err = last'.f /\ last'.ret = NoLocation)
        /\ (last'.f = Nil /\ Resolves(ZoneName, last'.tzdb)) =>
              (last'.err = Nil /\ last'.ret = [zone |-> ZoneName])
        /\ (last'.f = Nil /\ ~Resolves(ZoneName, last'.tzdb)
                /\ Resolves(dvm["timeLocation"], last'.tzdb)) =>
              (last'.err = Nil /\ last'.ret = [zone |-> dvm["timeLocation"]])
        /\ (last'.f = Nil /\ ~Resolves(ZoneName, last'.tzdb)
                /\ ~Resolves(dvm["timeLocation"], last'.tzdb)) =>
              (last'.err = LocationErr(dvm["timeLocation"]) /\ last'.ret = NoLocation)]_vars

\* the row names a zone that does not exist and the catalog's zone was
\* returned, without an error and with the row as it was
C19_Witness ==
    /\ last.op = "GetTimeLocation"
    /\ last.f = Nil
    /\ HasRow(store, "timeLocation")
    /\ Head(store["timeLocation"]) = <<"M", "a", "r", "s">>
    /\ last.err = Nil
    /\ last.ret = [zone |-> dvm["timeLocation"]]

\* the secret GetSecret answers with: the row's if there is one, else the
\* catalog's
SecretInForce == IF HasRow(store, "secret") THEN Head(store["secret"]) ELSE defaultSecret

\* C20: no upload dispatched by any call carries the key "secret" together
\* with the secret's value.
C20_SecretNeverUploaded ==
    \A i \in 1..Len(sent) :
        (sent[i].kind = "setting" /\ sent[i].key = "secret") => sent[i].value # SecretInForce

\* the calls that only read
ReadOps == {"GetAllSetting", "getString", "getInt", "GetBasePath", "GetTimeLocation"}

\* C21: GetAllSetting, getString (GetListen, GetCertFile, GetKeyFile,
\* GetXrayConfigTemplate), getInt (GetPort), GetBasePath and GetTimeLocation
\* leave every row as it was and dispatch no upload, whether they return a
\* value, a default or an error; GetSecret changes no row but the secret's
\* and dispatches no upload but the secret's.
C21_ReadsWriteNothing ==
    [][/\ last'.op \in ReadOps =>
              /\ store' = store
              /\ sent' = <<>>
       /\ last'.op = "GetSecret" =>
              /\ \A k \in StoreKeys \ {"secret"} : store'[k] = store[k]
              /\ \A i \in 1..Len(sent') :
                    sent'[i].kind = "setting" /\ sent'[i].key = "secret"]_vars

\* getString answered with the catalog's value for a key that has no row,
\* and the key still has none
C21_Witness ==
    /\ last.op = "getString"
    /\ last.f = Nil
    /\ last.key = "webBasePath"
    /\ last.err = Nil
    /\ last.ret = dvm["webBasePath"]
    /\ ~HasRow(store, "webBasePath")
    /\ sent = <<>>

\* C22: getInt("webPort") and GetAllSetting, made on the same table with
\* the database working, either both fail or both succeed with the same
\* integer for the port, whatever string the row holds; and a port that
\* SetPort has written is what both return.
C22_ReadPathsAgree ==
    /\ (last.op = "getInt" /\ last.key = "webPort" /\ last.f = Nil) =>
          \E a \in { GetAllSetting(store, dvm, Nil) } :
              IF last.err = Nil
              THEN a.err = Nil /\ a.setting["webPort"] = last.ret
              ELSE a.err # Nil
    /\ (last.op = "GetAllSetting" /\ last.f = Nil) =>
          \E g \in { getInt(store, dvm, "webPort", Nil) } :
              IF last.err = Nil
              THEN g.err = Nil /\ g.value = last.ret["webPort"]
              ELSE g.err # Nil
    /\ (last.op = "SetPort" /\ last.err = Nil) =>
          /\ getInt(store, dvm, "webPort", Nil) = [value |-> last.port, err |-> Nil]
          /\ GetAllSetting(store, dvm, Nil).err = Nil
          /\ GetAllSetting(store, dvm, Nil).setting["webPort"] = last.port

====
